---- MODULE Spec2Model ----
(***************************************************************************)
(* Model of the AvaTax checkout-calculate-taxes webhook handler            *)
(* (apps/avatax/src/pages/api/webhooks/checkout-calculate-taxes.ts).       *)
(*                                                                         *)
(* Several requests are in flight at once.  The handler callback contains  *)
(* no await: everything from its first line to                             *)
(* `return useCase.calculateTaxes(...).then(...)` runs in one synchronous  *)
(* turn (action HandlerBody).  The use case then runs asynchronously       *)
(* (action UseCaseRun), and the promise it returned is continued either by *)
(* the .then callback (action ThenCallback) or, when it rejects, by no     *)
(* callback at all (action UnawaitedRejection): the promise is returned    *)
(* from inside the try block without being awaited, so the catch block is  *)
(* no longer on the stack when it settles.                                 *)
(***************************************************************************)
EXTENDS Integers, Sequences, FiniteSets, TLC

\* Number of requests that can be in flight together.
NumReqs == 2

Reqs == 1..NumReqs

VARIABLES
    pc,        \* pc[r]: "idle", "received", "calculating", "providing", "done", "rejected"
    payload,   \* payload[r]: <<>> before the request arrives, <<ctx.payload>> after
    env,       \* env[r]: what the collaborators did in the synchronous turn
    ucResult,  \* ucResult[r]: how the promise of useCase.calculateTaxes settled
    ucRead,    \* ucRead[r]: what the use case got from metadataCache.getRawMetadata
    besideOther, \* history: when r's use case read the cache, another request
               \* had stored a different list and its use case had not read yet
    calls,     \* calls[r]: the calls r made on the cache and the use case, in order
    store,     \* the process-wide metadata cache: scope key -> <<>> or <<list>>
    resp,      \* resp[r]: the responses sent on res, in order
    captures   \* captures[r]: errors handed to captureException, in order

vars ==
    <<pc, payload, env, ucResult, ucRead, besideOther, calls, store, resp, captures>>

\* Typesense webhooks-status handler (apps/typesense/src/pages/api/webhooks-status.ts)
VARIABLES
    ws,           \* ws[s]: the state of request s of the webhooks-status handler
    storedConfig, \* the app configuration stored in the metadata of the Saleor app
    webhooks      \* the app's own webhooks as Saleor holds them

statusVars == <<ws, storedConfig, webhooks>>

\* ImportProductsToTypesense, the React component that imports the products
VARIABLES
    searchProvider,       \* 0 for null, else the identity of the provider object
    typesenseConfigured,  \* "null", "true" or "false"
    pings,                \* the searchProvider.ping() calls in flight
    started,
    currentProductIndex,
    isTypesenseImporting,
    allImported,
    productCount,         \* products.length; the list only grows, by appending
    loading,              \* "paused", "running" or "finished": useQueryAllProducts
    effectDue,            \* a dependency of the import effect changed in the last render
    uploads,              \* the updatedBatchProducts calls in flight
    batches,              \* history: the batches passed to updatedBatchProducts
    failed                \* history: an upload rejected

importVars ==
    <<searchProvider, typesenseConfigured, pings, started, currentProductIndex,
      isTypesenseImporting, allImported, productCount, loading, effectDue,
      uploads, batches, failed>>

----------------------------------------------------------------------------
(* Data *)

AvataxInvalidAddressError == "AvataxInvalidAddressError"

\* What a collaborator can throw: the one error class the catch block tells
\* apart, and anything else.
Thrown == {AvataxInvalidAddressError, "Error"}

ExpectedIncompletePayloadError == "ExpectedIncompletePayloadError"
ConfigBrokenError == "ConfigBrokenError"
FailedCalculatingTaxesError == "FailedCalculatingTaxesError"
UnhandledError == "UnhandledError"

\* The error variants of the use case's Result.
UseCaseErrors ==
    {ExpectedIncompletePayloadError, ConfigBrokenError,
     FailedCalculatingTaxesError, UnhandledError}

\* Success values of the use case.
TaxValues == {"taxes-A", "taxes-B"}

ConfigKey == "app-config"

Item(k, v) == [key |-> k, value |-> v]

WellFormedValues == {"json-A", "json-B"}

MetaAbsent == <<>>
MetaPresent(list) == <<[privateMetadata |-> list]>>

Payload(id, recipient) ==
    [taxBase |-> [sourceObject |-> [id |-> id]], recipient |-> recipient]

\* The payloads a request can carry: recipient absent, a list without the
\* configuration key, a malformed configuration, and two valid configurations
\* for different tenants.
Payloads ==
    { Payload("chk-1", MetaAbsent),
      Payload("chk-2", MetaPresent(<<Item("other", "x")>>)),
      Payload("chk-2", MetaPresent(<<Item(ConfigKey, "{broken")>>)),
      Payload("chk-1", MetaPresent(<<Item(ConfigKey, "json-A")>>)),
      Payload("chk-2", MetaPresent(<<Item("other", "x"), Item(ConfigKey, "json-B")>>)) }

CheckoutId(p) == p.taxBase.sourceObject.id

NoResult == [kind |-> "none", value |-> ""]
OkResult(v) == [kind |-> "ok", value |-> v]
ErrResult(e) == [kind |-> "err", value |-> e]
Rejected(t) == [kind |-> "rejected", value |-> t]

UseCaseOutcomes ==
    {OkResult(v) : v \in TaxValues}
        \cup {ErrResult(e) : e \in UseCaseErrors}
        \cup {Rejected(t) : t \in Thrown}

NoEnv == [chk |-> "n/a", ext |-> "n/a", log |-> "n/a"]

----------------------------------------------------------------------------
(* Collaborators whose code is outside the handler file *)

\* AppConfigExtractor.extractAppConfigFromPrivateMetadata: a Result holding
\* the configuration decoded from the entry stored under ConfigKey, or an
\* error when that entry is missing or its value does not decode.
ConfigEntries(list) == SelectSeq(list, LAMBDA it : it.key = ConfigKey)

DecodeConfig(value) == [tenant |-> SubSeq(value, 6, Len(value))]

extractAppConfigFromPrivateMetadata(list) ==
    IF ConfigEntries(list) = <<>>
    THEN [ok |-> FALSE, config |-> <<>>, error |-> "MissingConfig"]
    ELSE IF Head(ConfigEntries(list)).value \notin WellFormedValues
    THEN [ok |-> FALSE, config |-> <<>>, error |-> "MalformedConfig"]
    ELSE [ok |-> TRUE,
          config |-> <<DecodeConfig(Head(ConfigEntries(list)).value)>>,
          error |-> ""]

\* The metadata cache: a process-wide mapping from request-scope key to the raw
\* metadata list.  wrapWithMetadataCache runs each request under its own key.
\* One key for every request: a single process-wide slot.
ScopeKeyShared(r) == 1

ScopeKey(r) == r

cacheWrap(st, r) == [st EXCEPT ![ScopeKey(r)] = <<>>]

cacheSetMetadata(st, r, list) == [st EXCEPT ![ScopeKey(r)] = <<list>>]

cacheGetRawMetadata(st, r) == st[ScopeKey(r)]

----------------------------------------------------------------------------
(* The handler callback *)

Response(status, body) == [status |-> status, body |-> body]

Message(text) == [message |-> text]

\* ctx.buildResponse(value): the platform's response body around the value.
buildResponse(value) == [taxes |-> value]

Effect(responses, reported) == [resp |-> responses, captures |-> reported]

\* const appMetadata = payload.recipient?.privateMetadata ?? [];
AppMetadata(p) ==
    IF p.recipient = MetaAbsent THEN <<>> ELSE Head(p.recipient).privateMetadata

\* The catch block of the handler.
CatchBlock(error) ==
    IF error = AvataxInvalidAddressError
    THEN Effect(<<Response(400,
                   Message("InvalidAppAddressError: Check address in app configuration"))>>,
                <<>>)
    ELSE Effect(<<Response(500, Message("Unhandled error"))>>, <<error>>)

\* ErrorSwitch without the case for ExpectedIncompletePayloadError.
ErrorSwitchMissingCase(err, id) ==
    CASE err = FailedCalculatingTaxesError ->
           Effect(<<Response(500,
                     Message("Failed to calculate taxes for checkout: " \o id))>>, <<>>)
      [] err = ConfigBrokenError ->
           Effect(<<Response(500,
                     Message("Failed to calculate taxes due to invalid configuration for checkout: "
                             \o id))>>, <<>>)
      [] err = UnhandledError ->
           Effect(<<Response(500,
                     Message("Failed to calculate taxes (Unhandled error) for checkout: "
                             \o id))>>, <<err>>)
      [] OTHER -> Effect(<<>>, <<>>)

\* ErrorSwitch without captureException(err) in the UnhandledError case.
ErrorSwitchNoCapture(err, id) ==
    CASE err = FailedCalculatingTaxesError ->
           Effect(<<Response(500,
                     Message("Failed to calculate taxes for checkout: " \o id))>>, <<>>)
      [] err = ConfigBrokenError ->
           Effect(<<Response(500,
                     Message("Failed to calculate taxes due to invalid configuration for checkout: "
                             \o id))>>, <<>>)
      [] err = ExpectedIncompletePayloadError ->
           Effect(<<Response(400,
                     Message("Taxes can't be calculated due to incomplete payload for checkout: "
                             \o id))>>, <<>>)
      [] err = UnhandledError ->
           Effect(<<Response(500,
                     Message("Failed to calculate taxes (Unhandled error) for checkout: "
                             \o id))>>, <<>>)
      [] OTHER -> Effect(<<>>, <<>>)

\* switch (err.constructor) of the error branch of result.match; the switch
\* has no default, so any other constructor sends nothing.
ErrorSwitch(err, id) ==
    CASE err = FailedCalculatingTaxesError ->
           Effect(<<Response(500,
                     Message("Failed to calculate taxes for checkout: " \o id))>>, <<>>)
      [] err = ConfigBrokenError ->
           Effect(<<Response(500,
                     Message("Failed to calculate taxes due to invalid configuration for checkout: "
                             \o id))>>, <<>>)
      [] err = ExpectedIncompletePayloadError ->
           Effect(<<Response(400,
                     Message("Taxes can't be calculated due to incomplete payload for checkout: "
                             \o id))>>, <<>>)
      [] err = UnhandledError ->
           Effect(<<Response(500,
                     Message("Failed to calculate taxes (Unhandled error) for checkout: "
                             \o id))>>, <<err>>)
      [] OTHER -> Effect(<<>>, <<>>)

\* ResultMatch whose success branch builds the body from the wrong field of
\* the Result.
ResultMatchWrongField(result, id) ==
    IF result.kind = "ok"
    THEN Effect(<<Response(200, buildResponse(result.kind))>>, <<>>)
    ELSE Effect(<<>>, <<>>)

\* result.match(success branch, error branch)
ResultMatch(result, id) ==
    IF result.kind = "ok"
    THEN Effect(<<Response(200, buildResponse(result.value))>>, <<>>)
    ELSE ErrorSwitch(result.value, id)

\* The .map() callback without its try/catch: a throw of logConfiguration
\* leaves the callback.
LogConfigurationUnguarded(log) ==
    IF log = "throws"
    THEN [thrown |-> <<"Error">>, captures |-> <<>>]
    ELSE [thrown |-> <<>>, captures |-> <<>>]

\* The callback given to .map(): logConfiguration inside its own try/catch.
\* Nothing is ever thrown out of it; a throw of logConfiguration is reported.
LogConfigurationGuarded(log) ==
    IF log = "throws"
    THEN [thrown |-> <<>>, captures |-> <<"LogConfigurationMetricError">>]
    ELSE [thrown |-> <<>>, captures |-> <<>>]

\* The calls made on the cache and on the use case, in program order.
CallSetMetadata(list) == [op |-> "setMetadata", arg |-> list]

CallCalculateTaxes == [op |-> "calculateTaxes", arg |-> <<>>]

Throw(error, reported) ==
    [thrown |-> <<error>>, resp |-> <<>>, captures |-> reported, calls |-> <<>>]

Return(responses, reported, called) ==
    [thrown |-> <<>>, resp |-> responses, captures |-> reported, calls |-> called]

\* AfterConfig without the early return on config.isErr().
AfterConfigNoErrCheck(p, appMetadata, config, reported) ==
    Return(<<>>, reported, <<CallSetMetadata(appMetadata), CallCalculateTaxes>>)

\* AfterConfig without the call of metadataCache.setMetadata.
AfterConfigNoSetMetadata(p, appMetadata, config, reported) ==
    IF ~config.ok
    THEN Return(<<Response(400,
                   Message("App configuration is broken for checkout: "
                           \o CheckoutId(p)))>>,
                reported, <<>>)
    ELSE Return(<<>>, reported, <<CallCalculateTaxes>>)

\* From `if (config.isErr())` to `return useCase.calculateTaxes(...)`.
AfterConfig(p, appMetadata, config, reported) ==
    IF ~config.ok
    THEN Return(<<Response(400,
                   Message("App configuration is broken for checkout: "
                           \o CheckoutId(p)))>>,
                reported, <<>>)
    ELSE Return(<<>>, reported, <<CallSetMetadata(appMetadata), CallCalculateTaxes>>)

\* The try block up to the call of useCase.calculateTaxes.  e says what the
\* collaborators do: checkPayload returns or throws, the extractor returns a
\* Result ("ok" or "err") or throws, logConfiguration returns or throws.
TryBody(p, e) ==
    IF e.chk # "returns" THEN Throw(e.chk, <<>>)
    ELSE IF e.ext \notin {"ok", "err"} THEN Throw(e.ext, <<>>)
    ELSE
      LET appMetadata == AppMetadata(p)
          config == extractAppConfigFromPrivateMetadata(appMetadata)
          logged == IF config.ok
                    THEN LogConfigurationGuarded(e.log)
                    ELSE [thrown |-> <<>>, captures |-> <<>>]
      IN  IF logged.thrown # <<>>
          THEN Throw(Head(logged.thrown), logged.captures)
          ELSE AfterConfig(p, appMetadata, config, logged.captures)

\* try { ... } catch (error) { ... } for the synchronous turn.
TryCatch(p, e) ==
    LET t == TryBody(p, e)
    IN  IF t.thrown = <<>> THEN t
        ELSE LET c == CatchBlock(Head(t.thrown))
             IN  Return(t.resp \o c.resp, t.captures \o c.captures, t.calls)

SetMetadataCalls(called) == SelectSeq(called, LAMBDA c : c.op = "setMetadata")

CalculateTaxesCalls(called) == SelectSeq(called, LAMBDA c : c.op = "calculateTaxes")

\* What the collaborators of one synchronous turn can do.  A step that is
\* not reached is recorded as "n/a"; the Result the extractor returns is the
\* one it computes from the metadata of the payload.
EnvDraws(p) ==
    { e \in [chk : {"returns"} \cup Thrown,
             ext : {"n/a", "ok", "err"} \cup Thrown,
             log : {"n/a", "returns", "throws"}] :
        /\ (e.chk = "returns") <=> (e.ext # "n/a")
        /\ (e.ext = "ok") =>
              extractAppConfigFromPrivateMetadata(AppMetadata(p)).ok
        /\ (e.ext = "err") =>
              ~extractAppConfigFromPrivateMetadata(AppMetadata(p)).ok
        /\ (e.ext = "ok") <=> (e.log # "n/a") }

----------------------------------------------------------------------------
(* State machine *)

\* The import component is mounted and nothing has happened to it.
ImportIdle ==
    /\ searchProvider = 0
    /\ typesenseConfigured = "null"
    /\ pings = 0
    /\ started = FALSE
    /\ currentProductIndex = 0
    /\ isTypesenseImporting = FALSE
    /\ allImported = FALSE
    /\ productCount = 0
    /\ loading = "paused"
    /\ effectDue = FALSE
    /\ uploads = <<>>
    /\ batches = <<>>
    /\ failed = FALSE

\* No webhooks-status request is being handled.
StatusIdle ==
    /\ ws = [s \in {} |-> 0]
    /\ storedConfig = [appConfig |-> <<>>]
    /\ webhooks = <<>>

Init ==
    /\ pc = [r \in Reqs |-> "idle"]
    /\ payload = [r \in Reqs |-> <<>>]
    /\ env = [r \in Reqs |-> NoEnv]
    /\ ucResult = [r \in Reqs |-> NoResult]
    /\ ucRead = [r \in Reqs |-> <<>>]
    /\ besideOther = [r \in Reqs |-> FALSE]
    /\ calls = [r \in Reqs |-> <<>>]
    /\ store = [k \in Reqs |-> <<>>]
    /\ resp = [r \in Reqs |-> <<>>]
    /\ captures = [r \in Reqs |-> <<>>]
    /\ StatusIdle
    /\ ImportIdle

\* A request reaches the wrapped handler: withMetadataCache opens its scope.
\* Requests are numbered in the order they arrive.
Receive(r) ==
    /\ pc[r] = "idle"
    /\ IF r = 1 THEN TRUE ELSE pc[r - 1] # "idle"
    /\ \E p \in Payloads : payload' = [payload EXCEPT ![r] = <<p>>]
    /\ store' = cacheWrap(store, r)
    /\ pc' = [pc EXCEPT ![r] = "received"]
    /\ UNCHANGED <<env, ucResult, ucRead, besideOther, calls, resp, captures>>
    /\ UNCHANGED <<statusVars, importVars>>

\* The synchronous turn of the callback, from its first line to the return
\* of the (not awaited) promise or of a response.
HandlerBody(r) ==
    /\ pc[r] = "received"
    /\ \E e \in EnvDraws(Head(payload[r])) :
         LET h == TryCatch(Head(payload[r]), e)
         IN  /\ env' = [env EXCEPT ![r] = e]
             /\ resp' = [resp EXCEPT ![r] = @ \o h.resp]
             /\ captures' = [captures EXCEPT ![r] = @ \o h.captures]
             /\ calls' = [calls EXCEPT ![r] = @ \o h.calls]
             /\ store' = IF SetMetadataCalls(h.calls) = <<>> THEN store
                         ELSE cacheSetMetadata(store, r, Head(SetMetadataCalls(h.calls)).arg)
             /\ pc' = [pc EXCEPT ![r] = IF CalculateTaxesCalls(h.calls) # <<>>
                                        THEN "calculating" ELSE "done"]
    /\ UNCHANGED <<payload, ucResult, ucRead, besideOther>>
    /\ UNCHANGED <<statusVars, importVars>>

\* The use case, an async method, starts running: it reads the raw metadata
\* from the cache and goes on to call the provider.
UseCaseRun(r) ==
    /\ pc[r] = "calculating"
    /\ ucRead' = [ucRead EXCEPT ![r] = cacheGetRawMetadata(store, r)]
    /\ besideOther' = [besideOther EXCEPT ![r] =
                         \E q \in Reqs \ {r} :
                             pc[q] = "calculating" /\ calls[q] # calls[r]]
    /\ pc' = [pc EXCEPT ![r] = "providing"]
    /\ UNCHANGED <<payload, env, ucResult, calls, store, resp, captures>>
    /\ UNCHANGED <<statusVars, importVars>>

\* The promise of the use case is fulfilled with a Result and
\* .then((result) => result.match(...)) runs.
ThenCallback(r) ==
    /\ pc[r] = "providing"
    /\ \E o \in UseCaseOutcomes :
         /\ o.kind # "rejected"
         /\ ucResult' = [ucResult EXCEPT ![r] = o]
         /\ LET m == ResultMatch(o, CheckoutId(Head(payload[r])))
            IN  /\ resp' = [resp EXCEPT ![r] = @ \o m.resp]
                /\ captures' = [captures EXCEPT ![r] = @ \o m.captures]
    /\ pc' = [pc EXCEPT ![r] = "done"]
    /\ UNCHANGED <<payload, env, ucRead, besideOther, calls, store>>
    /\ UNCHANGED <<statusVars, importVars>>

\* The promise of the use case rejects with what was thrown inside.  .then has
\* no rejection callback and the promise was returned, not awaited, so the
\* try/catch has been left: the promise of the callback rejects and the
\* callback sends and reports nothing.
UnawaitedRejection(r) ==
    /\ pc[r] = "providing"
    /\ \E o \in UseCaseOutcomes :
         /\ o.kind = "rejected"
         /\ ucResult' = [ucResult EXCEPT ![r] = o]
    /\ pc' = [pc EXCEPT ![r] = "rejected"]
    /\ UNCHANGED <<payload, env, ucRead, besideOther, calls, store, resp, captures>>
    /\ UNCHANGED <<statusVars, importVars>>

----------------------------------------------------------------------------
(* The Typesense webhooks-status handler *)

\* Number of webhooks-status requests that can be in flight together.
NumStatusReqs == 2

StatusReqs == 1..NumStatusReqs

\* config.appConfig is absent (<<>>) or holds the Typesense connection.
ConfigWithout == [appConfig |-> <<>>]
ConfigWith == [appConfig |-> <<[host |-> "typesense.local"]>>]

StoredConfigs == {ConfigWithout, ConfigWith}

Webhook(name, active) == [name |-> name, isActive |-> active]

\* What Saleor can hold as the app's own webhooks when the requests arrive.
WebhookLists ==
    { <<>>,
      <<Webhook("PRODUCT_UPDATED", TRUE)>>,
      <<Webhook("PRODUCT_UPDATED", TRUE), Webhook("PRODUCT_DELETED", FALSE)>> }

\* Settlements of client.query(FetchOwnWebhooksDocument).toPromise(): it throws,
\* or resolves with a result whose data, or data.app, can be missing.
QueryThrows == [threw |-> TRUE, data |-> <<>>]
QueryResult(data) == [threw |-> FALSE, data |-> data]

QuerySettlements(list) ==
    { QueryThrows,
      QueryResult(<<>>),
      QueryResult(<<[app |-> <<>>]>>),
      QueryResult(<<[app |-> <<[webhooks |-> list]>>]>>) }

\* .then((r) => r.data?.app?.webhooks): <<>> for undefined, <<list>> otherwise.
OwnWebhooksOf(result) ==
    IF result.data = <<>> THEN <<>>
    ELSE IF Head(result.data).app = <<>> THEN <<>>
    ELSE <<Head(Head(result.data).app).webhooks>>

\* isWebhookUpdateNeeded({existingWebhookNames}): some webhook the app
\* declares is not among the existing ones.
RequiredWebhookNames == {"PRODUCT_UPDATED", "PRODUCT_DELETED"}

isWebhookUpdateNeeded(existingWebhookNames) ==
    \E n \in RequiredWebhookNames :
        \A i \in 1..Len(existingWebhookNames) : existingWebhookNames[i] # n

WebhookNames(list) == [i \in 1..Len(list) |-> list[i].name]

\* res.status(...).end(): a response without body.
EmptyBody == [empty |-> TRUE]

\* WebhookActivityTogglerService.disableOwnWebhooks, when it resolves: every
\* own webhook is inactive.
DisabledAll(list) == [i \in 1..Len(list) |-> Webhook(list[i].name, FALSE)]

NewStatusReq ==
    [pc |-> "start", config |-> <<>>, ping |-> "none", disable |-> "none",
     disableCalls |-> 0, query |-> <<>>, resp |-> <<>>]

\* await webhooksToggler.disableOwnWebhooks(): the handler goes on only when
\* the call has settled.
PcNotAwaitingDisable == "fetching"

PcAwaitingDisable == "disabling"

CallDisable(st) ==
    [st EXCEPT !.disable = "pending", !.disableCalls = @ + 1, !.pc = PcAwaitingDisable]

\* The branch on config.appConfig, pinging also without an appConfig.
OnConfigAlwaysPing(st, config) ==
    [st EXCEPT !.config = <<config>>, !.ping = "pending", !.pc = "pinging"]

\* if (!config.appConfig) { await disableOwnWebhooks() } else { ... await ping() }
OnConfig(st, config) ==
    IF config.appConfig = <<>>
    THEN CallDisable([st EXCEPT !.config = <<config>>])
    ELSE [st EXCEPT !.config = <<config>>, !.ping = "pending", !.pc = "pinging"]

\* try { await typesenseService.ping() } catch (e) { await disableOwnWebhooks() }
OnPing(st, pingOk) ==
    IF pingOk
    THEN [st EXCEPT !.ping = "resolved", !.pc = "fetching"]
    ELSE CallDisable([st EXCEPT !.ping = "rejected"])

\* The second try/catch with a list of no webhooks taken for a missing one.
FetchResponseEmptyIsMissing(settlement) ==
    IF settlement.threw THEN <<Response(500, EmptyBody)>>
    ELSE IF OwnWebhooksOf(settlement) = <<>> \/ OwnWebhooksOf(settlement) = << <<>> >>
    THEN <<Response(500, EmptyBody)>>
    ELSE LET list == Head(OwnWebhooksOf(settlement))
         IN  <<Response(200, [webhooks |-> list,
                              isUpdateNeeded |->
                                  isWebhookUpdateNeeded(WebhookNames(list))])>>

\* The second try/catch: from the settlement of the query to the response.
FetchResponse(settlement) ==
    IF settlement.threw THEN <<Response(500, EmptyBody)>>
    ELSE IF OwnWebhooksOf(settlement) = <<>> THEN <<Response(500, EmptyBody)>>
    ELSE LET list == Head(OwnWebhooksOf(settlement))
         IN  <<Response(200, [webhooks |-> list,
                              isUpdateNeeded |->
                                  isWebhookUpdateNeeded(WebhookNames(list))])>>

\* No checkout-calculate-taxes request has arrived.
AvataxIdle ==
    /\ pc = [r \in Reqs |-> "idle"]
    /\ payload = [r \in Reqs |-> <<>>]
    /\ env = [r \in Reqs |-> NoEnv]
    /\ ucResult = [r \in Reqs |-> NoResult]
    /\ ucRead = [r \in Reqs |-> <<>>]
    /\ besideOther = [r \in Reqs |-> FALSE]
    /\ calls = [r \in Reqs |-> <<>>]
    /\ store = [k \in Reqs |-> <<>>]
    /\ resp = [r \in Reqs |-> <<>>]
    /\ captures = [r \in Reqs |-> <<>>]

StatusInit ==
    /\ ws = [s \in StatusReqs |-> NewStatusReq]
    /\ storedConfig \in StoredConfigs
    /\ webhooks \in WebhookLists
    /\ AvataxIdle
    /\ ImportIdle

\* await configManager.get(...) rejects: nothing in the handler catches it.
ConfigLoadFails(s) ==
    /\ ws[s].pc = "start"
    /\ ws' = [ws EXCEPT ![s].pc = "crashed"]
    /\ UNCHANGED <<storedConfig, webhooks>>
    /\ UNCHANGED <<vars, importVars>>

\* await configManager.get(...) resolves; the handler runs on to its next await.
ConfigLoaded(s) ==
    /\ ws[s].pc = "start"
    /\ ws' = [ws EXCEPT ![s] = OnConfig(@, storedConfig)]
    /\ UNCHANGED <<storedConfig, webhooks>>
    /\ UNCHANGED <<vars, importVars>>

\* typesenseService.ping() settles.
PingSettles(s) ==
    /\ ws[s].ping = "pending"
    /\ \E pingOk \in BOOLEAN : ws' = [ws EXCEPT ![s] = OnPing(@, pingOk)]
    /\ UNCHANGED <<storedConfig, webhooks>>
    /\ UNCHANGED <<vars, importVars>>

\* disableOwnWebhooks() resolves: the webhooks are inactive; the handler, if
\* it awaits the call, issues the query.
DisableResolves(s) ==
    /\ ws[s].disable = "pending"
    /\ webhooks' = DisabledAll(webhooks)
    /\ ws' = [ws EXCEPT ![s].disable = "resolved",
                        ![s].pc = IF @ = "disabling" THEN "fetching" ELSE @]
    /\ UNCHANGED storedConfig
    /\ UNCHANGED <<vars, importVars>>

\* disableOwnWebhooks() rejects: nothing in the handler catches it.
DisableRejects(s) ==
    /\ ws[s].disable = "pending"
    /\ ws' = [ws EXCEPT ![s].disable = "rejected",
                        ![s].pc = IF @ = "disabling" THEN "crashed" ELSE @]
    /\ UNCHANGED <<storedConfig, webhooks>>
    /\ UNCHANGED <<vars, importVars>>

\* The query settles with what Saleor holds now, and the handler responds.
QuerySettles(s) ==
    /\ ws[s].pc = "fetching"
    /\ \E q \in QuerySettlements(webhooks) :
         ws' = [ws EXCEPT ![s].query = <<q>>,
                          ![s].resp = @ \o FetchResponse(q),
                          ![s].pc = "done"]
    /\ UNCHANGED <<storedConfig, webhooks>>
    /\ UNCHANGED <<vars, importVars>>

----------------------------------------------------------------------------
(* The product import component *)

BATCH_SIZE == 100

\* Largest number of products the shop holds.
MaxProducts == 250

\* Number of provider objects useMemo can produce while the component lives.
MaxProviders == 2

\* Sizes of the pages useQueryAllProducts appends to the list.
PageSizes == {50, 100}

Min(a, b) == IF a < b THEN a ELSE b

\* products.slice(from, from + BATCH_SIZE) of a list of `length` products:
\* the products at positions from+1 .. to (none when from >= length).
Slice(length, from) ==
    [from |-> Min(from, length), to |-> Min(from + BATCH_SIZE, length)]

\* The effect starting a batch whatever isTypesenseImporting is.
EffectGuardStartedOnly == started

\* if (started && !isTypesenseImporting)
EffectGuard == started /\ ~isTypesenseImporting

\* The first lines of importBatch: nothing to upload.
NothingToImport == searchProvider = 0 \/ productCount <= currentProductIndex

\* trpcClient.configuration.getConfig data arrives or changes: useMemo builds
\* a new provider, and the ping effect calls its ping().
ProviderCreated ==
    /\ ~effectDue
    /\ searchProvider < MaxProviders
    /\ searchProvider' = searchProvider + 1
    /\ pings' = pings + 1
    /\ effectDue' = TRUE
    /\ UNCHANGED <<typesenseConfigured, started, currentProductIndex, isTypesenseImporting, allImported,
                   productCount, loading, uploads, batches, failed>>
    /\ UNCHANGED <<vars, statusVars>>

\* A ping resolves (setTypesenseConfigured(true)) or rejects (false).
ProviderPingSettles ==
    /\ ~effectDue
    /\ pings > 0
    /\ pings' = pings - 1
    /\ typesenseConfigured' \in {"true", "false"}
    /\ UNCHANGED <<searchProvider, started, currentProductIndex,
                   isTypesenseImporting, allImported, productCount, loading,
                   effectDue, uploads, batches, failed>>
    /\ UNCHANGED <<vars, statusVars>>

\* onClick of the "Start importing" button, which is rendered only when
\* searchProvider && typesenseConfigured && !started && !isTypesenseImporting.
importProducts ==
    /\ ~effectDue
    /\ searchProvider # 0 /\ typesenseConfigured = "true"
    /\ ~started /\ ~isTypesenseImporting
    /\ started' = TRUE
    /\ loading' = "running"
    /\ effectDue' = TRUE
    /\ UNCHANGED <<searchProvider, typesenseConfigured, pings, currentProductIndex,
                   isTypesenseImporting, allImported, productCount, uploads,
                   batches, failed>>
    /\ UNCHANGED <<vars, statusVars>>

\* useQueryAllProducts(!started), not paused any more, appends a page.
ProductsPage ==
    /\ ~effectDue
    /\ loading = "running"
    /\ \E n \in PageSizes :
         /\ productCount + n <= MaxProducts
         /\ productCount' = productCount + n
    /\ effectDue' = TRUE
    /\ UNCHANGED <<searchProvider, typesenseConfigured, pings, started, currentProductIndex,
                   isTypesenseImporting, allImported, loading, uploads, batches, failed>>
    /\ UNCHANGED <<vars, statusVars>>

\* useQueryAllProducts has fetched the last page.
ProductsLoaded ==
    /\ ~effectDue
    /\ loading = "running"
    /\ loading' = "finished"
    /\ UNCHANGED <<searchProvider, typesenseConfigured, pings, started, currentProductIndex,
                   isTypesenseImporting, allImported, productCount, effectDue,
                   uploads, batches, failed>>
    /\ UNCHANGED <<vars, statusVars>>

\* The import effect runs after a render that changed one of its dependencies.
\* importBatch runs synchronously up to its await; the two state updates of a
\* run that finds nothing to import leave isTypesenseImporting as it was.
ImportEffect ==
    /\ effectDue
    /\ IF EffectGuard /\ ~NothingToImport
       THEN /\ isTypesenseImporting' = TRUE
            /\ uploads' = Append(uploads,
                                 [index |-> currentProductIndex, length |-> productCount])
            /\ batches' = Append(batches, Slice(productCount, currentProductIndex))
            /\ effectDue' = ~isTypesenseImporting
       ELSE /\ effectDue' = FALSE
            /\ UNCHANGED <<isTypesenseImporting, uploads, batches>>
    /\ UNCHANGED <<searchProvider, typesenseConfigured, pings, started, currentProductIndex,
                   allImported, productCount, loading, failed>>
    /\ UNCHANGED <<vars, statusVars>>

Without(seq, i) == SubSeq(seq, 1, i - 1) \o SubSeq(seq, i + 1, Len(seq))

\* await searchProvider.updatedBatchProducts(productsBatch) resolves and
\* importBatch goes on, with the products and the index of the render that
\* started it.
UploadResolves ==
    /\ ~effectDue
    /\ \E i \in 1..Len(uploads) :
         /\ uploads' = Without(uploads, i)
         /\ allImported' = IF uploads[i].index + BATCH_SIZE >= uploads[i].length
                           THEN TRUE ELSE allImported
    /\ currentProductIndex' = currentProductIndex + BATCH_SIZE
    /\ isTypesenseImporting' = FALSE
    /\ effectDue' = TRUE
    /\ UNCHANGED <<searchProvider, typesenseConfigured, pings, started, productCount,
                   loading, batches, failed>>
    /\ UNCHANGED <<vars, statusVars>>

\* The upload rejects: importBatch ends there, its promise is dropped.
UploadRejects ==
    /\ ~effectDue
    /\ \E i \in 1..Len(uploads) : uploads' = Without(uploads, i)
    /\ failed' = TRUE
    /\ UNCHANGED <<searchProvider, typesenseConfigured, pings, started, currentProductIndex,
                   isTypesenseImporting, allImported, productCount, loading,
                   effectDue, batches>>
    /\ UNCHANGED <<vars, statusVars>>

ImportInit == ImportIdle /\ AvataxIdle /\ StatusIdle

allVars == <<vars, statusVars, importVars>>

\* The checkout-calculate-taxes handler.
Next ==
    \E r \in Reqs :
        \/ Receive(r)
        \/ HandlerBody(r)
        \/ UseCaseRun(r)
        \/ ThenCallback(r)
        \/ UnawaitedRejection(r)

Spec == Init /\ [][Next]_allVars

\* The webhooks-status handler.
StatusNext ==
    \E s \in StatusReqs :
        \/ ConfigLoadFails(s)
        \/ ConfigLoaded(s)
        \/ PingSettles(s)
        \/ DisableResolves(s)
        \/ DisableRejects(s)
        \/ QuerySettles(s)

SpecStatus == StatusInit /\ [][StatusNext]_allVars

\* The product import component.
ImportNext ==
    \/ ProviderCreated
    \/ ProviderPingSettles
    \/ importProducts
    \/ ProductsPage
    \/ ProductsLoaded
    \/ ImportEffect
    \/ UploadResolves
    \/ UploadRejects

SpecImport == ImportInit /\ [][ImportNext]_allVars

----------------------------------------------------------------------------
(* Properties *)

Finished(r) == pc[r] \in {"done", "rejected"}

Count(seq, x) == Cardinality({i \in 1..Len(seq) : seq[i] = x})

\* sub occurs in s
Contains(s, sub) ==
    \E i \in 1..(Len(s) - Len(sub) + 1) : SubSeq(s, i, i + Len(sub) - 1) = sub

IdOf(r) == CheckoutId(Head(payload[r]))

\* The exception raised somewhere in the handling of r, if any: by
\* checkPayload, by the extractor, or inside the use case.
Raised(r, error) ==
    \/ env[r].chk = error
    \/ env[r].ext = error
    \/ ucResult[r] = Rejected(error)

\* The use case of r has read the cache.
HasRead(r) == pc[r] = "providing" \/ ucResult[r] # NoResult

\* The status table of the four use-case errors.
StatusOf(err) == IF err = ExpectedIncompletePayloadError THEN 400 ELSE 500

\* C1: every request that has been handled, whatever its outcome, got
\* exactly one response (and no request ever gets two).
C1_ExactlyOneResponse ==
    \A r \in Reqs :
        /\ Len(resp[r]) <= 1
        /\ Finished(r) => Len(resp[r]) = 1

\* C2: when the use case returned an error, the request got one response with
\* the status of the table and a body {message} whose message contains the
\* checkout id; no variant is left without a response.
C2_ErrorMapping ==
    \A r \in Reqs :
        (pc[r] = "done" /\ ucResult[r].kind = "err") =>
            /\ ucResult[r].value \in UseCaseErrors
            /\ Len(resp[r]) = 1
            /\ resp[r][1].status = StatusOf(ucResult[r].value)
            /\ DOMAIN resp[r][1].body = {"message"}
            /\ Contains(resp[r][1].body.message, IdOf(r))

C2_Witness ==
    /\ pc[1] = "done" /\ ucResult[1] = ErrResult(ExpectedIncompletePayloadError)
    /\ resp[1][1].status = 400
    /\ pc[2] = "done" /\ ucResult[2] = ErrResult(ConfigBrokenError)
    /\ resp[2][1].status = 500

\* C3: an exception other than AvataxInvalidAddressError raised at any step is
\* reported exactly once and answered with 500 {message: "Unhandled error"}.
C3_UnexpectedIsCaught ==
    \A r \in Reqs :
        (Finished(r) /\ Raised(r, "Error")) =>
            /\ resp[r] = <<Response(500, Message("Unhandled error"))>>
            /\ Count(captures[r], "Error") = 1

\* C4: an AvataxInvalidAddressError raised at any step is answered with 400 and
\* the fixed address message, and is not reported.
C4_InvalidAddressIs400 ==
    \A r \in Reqs :
        (Finished(r) /\ Raised(r, AvataxInvalidAddressError)) =>
            /\ resp[r] = <<Response(400,
                   Message("InvalidAppAddressError: Check address in app configuration"))>>
            /\ Count(captures[r], AvataxInvalidAddressError) = 0

\* C5 as stated: when the use case returned a success value the request got
\* 200 with buildResponse(value), and captureException was not called.
C5_SuccessNoCapture ==
    \A r \in Reqs :
        (pc[r] = "done" /\ ucResult[r].kind = "ok") =>
            /\ resp[r] = <<Response(200, buildResponse(ucResult[r].value))>>
            /\ captures[r] = <<>>

\* C5 amended: when the use case returned a success value the request got 200
\* with buildResponse(value); the success branch reports nothing, so the only
\* report of the request is the LogConfigurationMetricError made when
\* logConfiguration threw.
C5_Success ==
    \A r \in Reqs :
        (pc[r] = "done" /\ ucResult[r].kind = "ok") =>
            /\ resp[r] = <<Response(200, buildResponse(ucResult[r].value))>>
            /\ captures[r] = IF env[r].log = "throws"
                             THEN <<"LogConfigurationMetricError">> ELSE <<>>

C5_Witness ==
    /\ pc[1] = "done" /\ ucResult[1] = OkResult("taxes-B")
    /\ resp[1] = <<Response(200, [taxes |-> "taxes-B"])>>
    /\ env[1].log = "returns"
    /\ pc[2] = "done" /\ ucResult[2].kind = "ok" /\ env[2].log = "throws"

\* C6: when config extraction returned an error (recipient absent, list empty
\* or malformed) the request got 400 "App configuration is broken for
\* checkout: <id>", and neither calculateTaxes nor setMetadata was called.
C6_ConfigError ==
    \A r \in Reqs :
        env[r].ext = "err" =>
            /\ pc[r] = "done"
            /\ resp[r] = <<Response(400,
                   Message("App configuration is broken for checkout: " \o IdOf(r)))>>
            /\ calls[r] = <<>>
            /\ ucResult[r] = NoResult

C6_Witness ==
    /\ pc[1] = "done" /\ env[1].ext = "err"
    /\ Head(payload[1]).recipient = MetaAbsent
    /\ resp[1][1].status = 400
    /\ pc[2] = "done" /\ env[2].ext = "err"
    /\ Head(payload[2]).recipient = MetaPresent(<<Item(ConfigKey, "{broken")>>)
    /\ resp[2][1].status = 400

\* C7: when the use case returned UnhandledError, that error was reported
\* exactly once and the request got 500 "Failed to calculate taxes (Unhandled
\* error) for checkout: <id>".
C7_UnhandledReportedOnce ==
    \A r \in Reqs :
        (pc[r] = "done" /\ ucResult[r] = ErrResult(UnhandledError)) =>
            /\ Count(captures[r], UnhandledError) = 1
            /\ resp[r] = <<Response(500,
                   Message("Failed to calculate taxes (Unhandled error) for checkout: "
                           \o IdOf(r)))>>

C7_Witness ==
    \E r \in Reqs :
        /\ pc[r] = "done" /\ ucResult[r] = ErrResult(UnhandledError)
        /\ env[r].log = "throws"
        /\ Len(captures[r]) = 2

\* C8: two requests that differ only in logConfiguration throwing or returning
\* make the same calls on the cache and the use case (so the use case is
\* invoked in both or in neither) and, the use case settling alike, get the
\* same responses; the throw is reported once as LogConfigurationMetricError,
\* before anything else the request reports.
C8_LogFailureIsNonFatal ==
    \A r1, r2 \in Reqs :
        ( /\ Finished(r1) /\ Finished(r2)
          /\ payload[r1] = payload[r2]
          /\ env[r1].chk = env[r2].chk /\ env[r1].ext = env[r2].ext
          /\ env[r1].log = "throws" /\ env[r2].log = "returns" ) =>
            /\ calls[r1] = calls[r2]
            /\ ucResult[r1] = ucResult[r2] =>
                  /\ resp[r1] = resp[r2]
                  /\ pc[r1] = pc[r2]
                  /\ captures[r1] = <<"LogConfigurationMetricError">> \o captures[r2]

C8_Witness ==
    /\ pc[1] = "done" /\ pc[2] = "done"
    /\ payload[1] = payload[2]
    /\ env[1].log = "throws" /\ env[2].log = "returns"
    /\ ucResult[1] = ucResult[2] /\ ucResult[1].kind = "ok"
    /\ resp[1] = resp[2] /\ resp[1][1].status = 200

\* C9: the metadata a request's use case reads from the cache is the list that
\* request itself stored with setMetadata, whatever other requests are in
\* flight.
C9_CacheIsRequestScoped ==
    \A r \in Reqs :
        HasRead(r) =>
            /\ Len(SetMetadataCalls(calls[r])) = 1
            /\ ucRead[r] = <<Head(SetMetadataCalls(calls[r])).arg>>

C9_Witness ==
    \E r \in Reqs :
        /\ HasRead(r)
        /\ besideOther[r]
        /\ ucRead[r] # <<>>

\* C10: every invocation of calculateTaxes is preceded, in the same request,
\* by exactly one call of setMetadata, made after config extraction succeeded
\* and with the list the config was extracted from.
C10_SetMetadataBeforeUseCase ==
    \A r \in Reqs : \A i \in 1..Len(calls[r]) :
        calls[r][i].op = "calculateTaxes" =>
            /\ Cardinality({j \in 1..Len(calls[r]) : calls[r][j].op = "setMetadata"}) = 1
            /\ \E j \in 1..(i - 1) :
                   calls[r][j] = CallSetMetadata(AppMetadata(Head(payload[r])))
            /\ env[r].ext = "ok"

C10_Witness ==
    \E r \in Reqs :
        /\ pc[r] = "calculating"
        /\ calls[r] = <<CallSetMetadata(<<Item("other", "x"), Item(ConfigKey, "json-B")>>),
                        CallCalculateTaxes>>

----------------------------------------------------------------------------
(* Properties of the webhooks-status handler *)

StatusFinished(s) == ws[s].pc \in {"done", "crashed"}

HasAppConfig(s) == ws[s].config # <<>> /\ Head(ws[s].config).appConfig # <<>>

LacksAppConfig(s) == ws[s].config # <<>> /\ Head(ws[s].config).appConfig = <<>>

\* The query of s resolved with a list of webhooks.
ResolvedWithList(s) ==
    /\ ws[s].query # <<>>
    /\ ~Head(ws[s].query).threw
    /\ Head(ws[s].query).data # <<>>
    /\ Head(Head(ws[s].query).data).app # <<>>

\* C11: disableOwnWebhooks is called at most once per request, and it is
\* called exactly when the loaded configuration has no appConfig or the ping
\* rejected; without appConfig Typesense is never pinged, and after a
\* successful ping the webhooks are not disabled.
C11_DisableIffNeeded ==
    \A s \in StatusReqs :
        /\ ws[s].disableCalls <= 1
        /\ ws[s].ping # "none" => HasAppConfig(s)
        /\ ws[s].ping = "resolved" => ws[s].disableCalls = 0
        /\ ws[s].disableCalls = 1 <=> (LacksAppConfig(s) \/ ws[s].ping = "rejected")

C11_Witness ==
    /\ storedConfig = ConfigWith
    /\ ws[1].pc = "done" /\ ws[1].ping = "rejected" /\ ws[1].disableCalls = 1
    /\ ws[2].pc = "done" /\ ws[2].ping = "resolved" /\ ws[2].disableCalls = 0

\* C13: a request is answered 200 with {webhooks, isUpdateNeeded} exactly when
\* its query resolved with a list of webhooks, and 500 without body when the
\* query resolved without a list or threw, whether or not the webhooks were
\* disabled earlier in the request.
C13_StatusResponse ==
    \A s \in StatusReqs :
        /\ ws[s].resp # <<>> => ws[s].query # <<>>
        /\ ws[s].query # <<>> =>
             /\ Len(ws[s].resp) = 1
             /\ IF ResolvedWithList(s)
                THEN /\ ws[s].resp[1].status = 200
                     /\ DOMAIN ws[s].resp[1].body = {"webhooks", "isUpdateNeeded"}
                     /\ ws[s].resp[1].body.webhooks
                          = Head(Head(Head(ws[s].query).data).app).webhooks
                     /\ ws[s].resp[1].body.isUpdateNeeded \in BOOLEAN
                ELSE ws[s].resp = <<Response(500, EmptyBody)>>

C13_Witness ==
    /\ ws[1].disable = "resolved" /\ ws[1].resp # <<>> /\ ws[1].resp[1].status = 200
    /\ ws[1].resp[1].body.webhooks = <<>>
    /\ ws[2].disable = "none" /\ ws[2].resp = <<Response(500, EmptyBody)>>
    /\ Head(ws[2].query) = QueryResult(<<[app |-> <<>>]>>)

\* C14: the query is issued only when the ping and the disableOwnWebhooks
\* call of the request have completed, so a list answered by a request that
\* disabled the webhooks shows them disabled.
C14_QueryAfterDisable ==
    \A s \in StatusReqs :
        (ws[s].pc = "fetching" \/ ws[s].query # <<>>) =>
            /\ ws[s].ping \in {"none", "resolved", "rejected"}
            /\ ws[s].disable \in {"none", "resolved"}
            /\ ws[s].disableCalls = 1 => ws[s].disable = "resolved"
            /\ (ws[s].disable = "resolved" /\ ResolvedWithList(s)) =>
                 \A i \in 1..Len(ws[s].resp[1].body.webhooks) :
                     ~ws[s].resp[1].body.webhooks[i].isActive

C14_Witness ==
    \E s \in StatusReqs :
        /\ ws[s].pc = "done" /\ ws[s].ping = "rejected" /\ ws[s].disable = "resolved"
        /\ ws[s].resp[1].status = 200
        /\ ws[s].resp[1].body.webhooks
             = <<Webhook("PRODUCT_UPDATED", FALSE), Webhook("PRODUCT_DELETED", FALSE)>>

\* C15: every request the handler has finished with, also one whose
\* configManager.get or disableOwnWebhooks rejected, got exactly one response,
\* 200 or 500.
C15_StatusExactlyOneResponse ==
    \A s \in StatusReqs :
        /\ Len(ws[s].resp) <= 1
        /\ StatusFinished(s) =>
             Len(ws[s].resp) = 1 /\ ws[s].resp[1].status \in {200, 500}

----------------------------------------------------------------------------
(* Properties of the product import *)

\* The batches that were sent with the product at position j of the list.
BatchesWith(j) == {k \in 1..Len(batches) : batches[k].from < j /\ j <= batches[k].to}

\* The "Importing complete" button is rendered.
ImportingCompleteShown ==
    /\ searchProvider # 0 /\ typesenseConfigured = "true"
    /\ started /\ allImported /\ ~isTypesenseImporting

\* C12: the batches sent are the consecutive slices [i, i + BATCH_SIZE) of the
\* product list, i = 0, BATCH_SIZE, ..., and every product the index has
\* passed was sent in exactly one batch, also when the list grew meanwhile.
C12_EveryProductInOneBatch ==
    /\ \A k \in 1..Len(batches) :
         /\ batches[k].from = (k - 1) * BATCH_SIZE
         /\ batches[k].to <= batches[k].from + BATCH_SIZE
    /\ \A j \in 1..Min(currentProductIndex, productCount) :
         Cardinality(BatchesWith(j)) = 1

\* C16: allImported is true, and the "Importing complete" button shown, only
\* when currentProductIndex >= products.length, also when the list grows
\* during the import.
C16_AllImportedOnlyWhenAllSent ==
    /\ allImported => currentProductIndex >= productCount
    /\ ImportingCompleteShown => currentProductIndex >= productCount

\* C17: at most one updatedBatchProducts call is in flight at any time, and
\* isTypesenseImporting is true as long as it is.
C17_OneUploadInFlight ==
    /\ Len(uploads) <= 1
    /\ uploads # <<>> => isTypesenseImporting

\* A second batch is in flight, and the list grew (the effect ran again)
\* after it was started.
C17_Witness ==
    /\ Len(batches) = 2 /\ Len(uploads) = 1
    /\ uploads[1].index = BATCH_SIZE
    /\ productCount > uploads[1].length
    /\ ~effectDue

\* C18: an import started with a provider whose uploads all succeed finishes,
\* for every size of the list, the empty one included: once the list is
\* loaded and nothing is pending or in flight, isTypesenseImporting is false
\* and allImported is true.
C18_ImportFinishes ==
    (/\ started /\ searchProvider # 0 /\ ~failed
     /\ loading = "finished" /\ ~effectDue /\ uploads = <<>>)
        => (~isTypesenseImporting /\ allImported)

====
